---- MODULE Spec2Model ----
(***************************************************************************)
(* Model of the lock-free doubly linked list of lock_free_list.h.         *)
(*                                                                         *)
(* Every macro is split into its atomic accesses of shared memory: one     *)
(* action per atomic load, store or compare-exchange on an endpoint or on  *)
(* a field of a published node.  Accesses to thread-local variables and    *)
(* to a node that is still private to the thread are folded into the       *)
(* neighbouring shared access.  Memory is sequentially consistent and a    *)
(* compare-exchange fails only when the compared values differ.            *)
(*                                                                         *)
(* Storage: a node is "unused" (never returned by calloc), "live" or       *)
(* "freed".  calloc returns the lowest unused node or any freed one (the   *)
(* allocator may reuse an address).  An access to a node that is not live  *)
(* is undefined behaviour: it is recorded in hist.uaf, a load returns any  *)
(* value of the field's type, a store is lost (released storage holds no   *)
(* value that a later load could rely on).                                 *)
(***************************************************************************)
EXTENDS Integers, Sequences, FiniteSets, TLC

\* ---------------------------------------------------------------- bounds
MaxNodes == 3
MaxVal == 2
MaxRef == 1
MaxOps == 7
MaxConcOps == 4
MaxSeqOps == 5
\* The operations the thread of the refcount frame check may start.
MaxFrameOps == 4

Null == 0
Nodes == 1..MaxNodes
NodeOrNull == Nodes \cup {Null}
Values == 1..MaxVal
\* The threads; the single-threaded specifications run the first one only.
Threads == {1, 2}
Single == {1}

VARIABLES
  head,      \* inst##_head
  tail,      \* inst##_tail
  next,      \* next[n]: the node's next field
  prev,      \* prev[n]: the node's prev field
  removed,   \* removed[n]: 0 or 1
  refcount,  \* refcount[n]
  id,        \* id[n]: the payload field of the test and sample nodes
  status,    \* status[n]: "unused", "live" or "freed"
  pc,        \* pc[t]: the position of thread t inside the macro it executes
  loc,       \* loc[t]: the local variables of the macro thread t executes
  hist       \* history: what happened so far (not program state)

vars == <<head, tail, next, prev, removed, refcount, id, status, pc, loc, hist>>
list == <<head, tail, next, prev, removed, refcount, id, status>>

\* ------------------------------------------------------------ node storage
\* lfl_def: the fields of a node as calloc leaves them.
Live(n) == n # Null /\ status[n] = "live"

\* A pointer that a load from released storage can produce.
Garbage == {Null} \cup {n \in Nodes : status[n] # "unused"}

\* The values an atomic load of a pointer field f of node n can return.
LoadPtr(f, n) == IF status[n] = "live" THEN {f[n]} ELSE Garbage
\* The values a load of the removed flag / the refcount of node n can return.
LoadFlag(n) == IF status[n] = "live" THEN {removed[n]} ELSE {0, 1}
LoadRef(n) == IF status[n] = "live" THEN {refcount[n]} ELSE 0..MaxRef
LoadId(n) == IF status[n] = "live" THEN {id[n]} ELSE {0} \cup Values

\* A store of v into field f of node n.
Store(f, n, v) == IF status[n] = "live" THEN [f EXCEPT ![n] = v] ELSE f

\* The nodes calloc can return: the next fresh address, or a released one.
Unused == {n \in Nodes : status[n] = "unused"}
Min(S) == CHOOSE x \in S : \A y \in S : x <= y
Calloc == {n \in Nodes : status[n] = "freed"}
            \cup (IF Unused = {} THEN {} ELSE {Min(Unused)})

\* -------------------------------------------------------------- the chain
\* The nodes met by following next from node n, at most k of them
\* (the walk stops at null, at a node met before, or at released storage).
RECURSIVE Walk(_, _, _)
Walk(n, seen, k) ==
  IF n = Null \/ k = 0 \/ n \in seen THEN <<>>
  ELSE IF status[n] # "live" THEN <<n>>
  ELSE <<n>> \o Walk(next[n], seen \cup {n}, k - 1)

Chain == Walk(head, {}, MaxNodes)
Range(s) == {s[i] : i \in 1..Len(s)}
Reachable == Range(Chain)
\* The chain from head is a proper list: live nodes, ending in null.
Last(s) == s[Len(s)]
ChainOk == \A i \in 1..Len(Chain) : Live(Chain[i])
ChainEnds == Chain = <<>> \/ (Live(Last(Chain)) /\ next[Last(Chain)] = Null)

\* ------------------------------------------------------------- local state
\* item: the macro's item / ptr; exp: expected_tail, old_head, cursor or
\* cursor_tail; prev, curr, next, removed, refs, null_ptr: the locals of these
\* names; val: the payload value at hand; out: what a traversal yielded;
\* seen, pre: what the operation saw of the history when it started; del: the
\* nodes the body of an iteration has deleted.
NoLoc == [op |-> "none", item |-> Null, exp |-> Null, prev |-> Null,
          curr |-> Null, next |-> Null, null_ptr |-> Null, removed |-> 0,
          refs |-> 0, val |-> 0, out |-> <<>>, pre |-> <<>>, seen |-> {},
          del |-> {}]

Idle(t) == pc[t] = "idle"
\* A thread may start an operation while the budget of operations lasts.
Start(t) == Idle(t) /\ hist.left > 0
Goto(t, l) == pc' = [pc EXCEPT ![t] = l]
SetLoc(t, r) == loc' = [loc EXCEPT ![t] = r]
Return(t) == pc' = [pc EXCEPT ![t] = "idle"]
\* An access of node n by the macro thread t executes: undefined when n is
\* not live.
Touch(t, n) == [hist EXCEPT !.uaf = IF status[n] # "live"
                                      THEN @ \cup {loc[t].op} ELSE @]

\* left: the number of operations that may still be started; uaf: the kinds
\* of operation that accessed storage that was not live; dfree: free() of
\* storage that was not live; pushed: <<node, value>> of every insertion that returned,
\* in order; marked: the nodes whose lfl_remove returned; popped[n]: how often
\* a pop returned n since n was allocated or attached; fin: the nodes the finalizer was called on; dfin: the
\* finalizer ran on a node it had run on before, or on released storage;
\* reapbad: a reap CAS of lfl_sweep succeeded on a node that was not removed
\* with refcount zero at that moment.
NoHist == [left |-> MaxOps, uaf |-> {}, dfree |-> FALSE, pushed |-> <<>>,
           marked |-> {}, popped |-> [n \in Nodes |-> 0], fin |-> {}, dfin |-> FALSE,
           reapbad |-> FALSE]

\* The empty list after lfl_init, with a budget of k operations.
InitEmpty(k) ==
  /\ head = Null
  /\ tail = Null
  /\ next = [n \in Nodes |-> Null]
  /\ prev = [n \in Nodes |-> Null]
  /\ removed = [n \in Nodes |-> 0]
  /\ refcount = [n \in Nodes |-> 0]
  /\ id = [n \in Nodes |-> 0]
  /\ status = [n \in Nodes |-> "unused"]
  /\ pc = [t \in Threads |-> "idle"]
  /\ loc = [t \in Threads |-> NoLoc]
  /\ hist = [NoHist EXCEPT !.left = k]

Init == InitEmpty(MaxOps)

\* The history of an address starts anew when calloc returns it.
Fresh(n) == [hist EXCEPT !.fin = @ \ {n}, !.popped[n] = 0, !.left = @ - 1]
\* One more operation was started.
Count == [hist EXCEPT !.left = @ - 1]
\* The records about a node end when its storage is released.
Gone(h, n) == LET Other(e) == e[1] # n
              IN [h EXCEPT !.marked = @ \ {n}, !.pushed = SelectSeq(@, Other)]

\* calloc(1, sizeof(*item)): node n becomes live with every field zero
\* (v is 0, or the id the caller of lfl_new stores right away).
Zeroed(n, v) ==
  /\ status' = [status EXCEPT ![n] = "live"]
  /\ next' = [next EXCEPT ![n] = Null]
  /\ prev' = [prev EXCEPT ![n] = Null]
  /\ removed' = [removed EXCEPT ![n] = 0]
  /\ refcount' = [refcount EXCEPT ![n] = 0]
  /\ id' = [id EXCEPT ![n] = v]

\* free(n): the storage of n is released; what it held is gone.
Free(n) ==
  /\ status' = [status EXCEPT ![n] = "freed"]
  /\ next' = [next EXCEPT ![n] = Null]
  /\ prev' = [prev EXCEPT ![n] = Null]
  /\ removed' = [removed EXCEPT ![n] = 0]
  /\ refcount' = [refcount EXCEPT ![n] = 0]
  /\ id' = [id EXCEPT ![n] = 0]

\* ------------------------------------------------------------ lfl_add_tail
\* item = calloc(...); item->next = NULL; item->removed = 0; null_ptr = NULL.
\* v is the payload the caller stores into the node after the macro.
add_tail_alloc(t) ==
  /\ Start(t)
  /\ \E n \in Calloc, v \in Values :
       /\ Zeroed(n, 0)
       /\ SetLoc(t, [NoLoc EXCEPT !.op = "push", !.item = n, !.val = v])
       /\ hist' = Fresh(n)
  /\ Goto(t, "add_tail_load")
  /\ UNCHANGED <<head, tail>>

\* expected_tail = load(tail)
add_tail_load(t) ==
  /\ pc[t] = "add_tail_load"
  /\ SetLoc(t, [loc[t] EXCEPT !.exp = tail])
  /\ Goto(t, IF tail = Null THEN "add_tail_cas_head" ELSE "add_tail_cas_next")
  /\ UNCHANGED <<list, hist>>

\* CAS(head, &null_ptr, item): null_ptr is declared outside the retry loop,
\* so a failed exchange leaves the head it saw in null_ptr.
add_tail_cas_head(t) ==
  /\ pc[t] = "add_tail_cas_head"
  /\ IF head = loc[t].null_ptr
       THEN /\ head' = loc[t].item
            /\ Goto(t, "add_tail_set_tail")
            /\ UNCHANGED loc
       ELSE /\ SetLoc(t, [loc[t] EXCEPT !.null_ptr = head])
            /\ Goto(t, "add_tail_load")
            /\ UNCHANGED head
  /\ UNCHANGED <<tail, next, prev, removed, refcount, id, status, hist>>

\* store(tail, item)
add_tail_set_tail(t) ==
  /\ pc[t] = "add_tail_set_tail"
  /\ tail' = loc[t].item
  /\ Goto(t, "add_tail_prev_null")
  /\ UNCHANGED <<head, next, prev, removed, refcount, id, status, loc, hist>>

\* store(item->prev, NULL)
add_tail_prev_null(t) ==
  /\ pc[t] = "add_tail_prev_null"
  /\ prev' = Store(prev, loc[t].item, Null)
  /\ hist' = Touch(t, loc[t].item)
  /\ Goto(t, "push_set_id")
  /\ UNCHANGED <<head, tail, next, removed, refcount, id, status, loc>>

\* next = NULL; CAS(expected_tail->next, &next, item)
add_tail_cas_next(t) ==
  /\ pc[t] = "add_tail_cas_next"
  /\ \E cur \in LoadPtr(next, loc[t].exp) :
       IF cur = Null
         THEN /\ next' = Store(next, loc[t].exp, loc[t].item)
              /\ Goto(t, "add_tail_set_prev")
         ELSE /\ Goto(t, "add_tail_load")
              /\ UNCHANGED next
  /\ hist' = Touch(t, loc[t].exp)
  /\ UNCHANGED <<head, tail, prev, removed, refcount, id, status, loc>>

\* store(item->prev, expected_tail)
add_tail_set_prev(t) ==
  /\ pc[t] = "add_tail_set_prev"
  /\ prev' = Store(prev, loc[t].item, loc[t].exp)
  /\ hist' = Touch(t, loc[t].item)
  /\ Goto(t, "add_tail_cas_tail")
  /\ UNCHANGED <<head, tail, next, removed, refcount, id, status, loc>>

\* A tail append that never advances tail.
add_tail_cas_tail_stale(t) ==
  /\ pc[t] = "add_tail_cas_tail"
  /\ Goto(t, "push_set_id")
  /\ UNCHANGED <<list, loc, hist>>

\* CAS(tail, &expected_tail, item): the result is ignored.
add_tail_cas_tail(t) ==
  /\ pc[t] = "add_tail_cas_tail"
  /\ tail' = IF tail = loc[t].exp THEN loc[t].item ELSE tail
  /\ Goto(t, "push_set_id")
  /\ UNCHANGED <<head, next, prev, removed, refcount, id, status, loc, hist>>

\* The caller's statement after the macro: item->id = v (the caller of an
\* attach variant has stored the id before).  The insertion has returned:
\* the node and its value are recorded in hist.pushed.
push_set_id(t) ==
  /\ pc[t] = "push_set_id"
  /\ id' = IF loc[t].op = "attach" THEN id
                                   ELSE Store(id, loc[t].item, loc[t].val)
  /\ hist' = [(IF loc[t].op = "attach" THEN hist ELSE Touch(t, loc[t].item))
                EXCEPT !.pushed = Append(@, <<loc[t].item, loc[t].val>>)]
  /\ SetLoc(t, NoLoc)
  /\ Return(t)
  /\ UNCHANGED <<head, tail, next, prev, removed, refcount, status>>

add_tail(t) ==
  \/ add_tail_alloc(t)
  \/ add_tail_load(t)
  \/ add_tail_cas_head(t)
  \/ add_tail_set_tail(t)
  \/ add_tail_prev_null(t)
  \/ add_tail_cas_next(t)
  \/ add_tail_set_prev(t)
  \/ add_tail_cas_tail(t)

\* CAS(tail, &expected_tail, item) as the macro has it: a weak
\* compare-exchange, which may fail although tail == expected_tail; the
\* result is ignored either way.
add_tail_cas_tail_weak(t) ==
  /\ pc[t] = "add_tail_cas_tail"
  /\ \E ok \in BOOLEAN :
       tail' = IF ok /\ tail = loc[t].exp THEN loc[t].item ELSE tail
  /\ Goto(t, "push_set_id")
  /\ UNCHANGED <<head, next, prev, removed, refcount, id, status, loc, hist>>

\* The steps of lfl_add_tail with the weak exchange on tail.
add_tail_weak(t) ==
  \/ add_tail_alloc(t)
  \/ add_tail_load(t)
  \/ add_tail_cas_head(t)
  \/ add_tail_set_tail(t)
  \/ add_tail_prev_null(t)
  \/ add_tail_cas_next(t)
  \/ add_tail_set_prev(t)
  \/ add_tail_cas_tail_weak(t)

\* ------------------------------------------------------------- lfl_foreach
\* item = load(head), item_next = NULL.  op is "iterate" (the body reads
\* item->id), "count" (lfl_count: the body is out++) or "iterdel" (the body
\* reads item->id and may call lfl_delete on item).  loc.seen keeps the
\* nodes whose lfl_remove had returned when the traversal started, loc.pre
\* the chain a deleting iteration started on.
foreach_head(t, op) ==
  /\ Start(t)
  /\ SetLoc(t, [NoLoc EXCEPT !.op = op, !.item = head, !.seen = hist.marked,
                            !.pre = IF op = "iterdel" THEN Chain ELSE <<>>])
  /\ Goto(t, IF head = Null THEN "foreach_done" ELSE "foreach_next")
  /\ hist' = Count
  /\ UNCHANGED list

\* item_next = load(item->next)
foreach_next(t) ==
  /\ pc[t] = "foreach_next"
  /\ \E v \in LoadPtr(next, loc[t].item) :
       SetLoc(t, [loc[t] EXCEPT !.next = v])
  /\ hist' = Touch(t, loc[t].item)
  /\ Goto(t, "foreach_removed")
  /\ UNCHANGED list

\* The step to the next node: item = item_next, and the loop test.
Advance(t, r) ==
  /\ SetLoc(t, [r EXCEPT !.item = r.next])
  /\ Goto(t, IF r.next = Null THEN "foreach_done" ELSE "foreach_next")

\* An iterator that runs the body for removed nodes too.
foreach_removed_ignored(t) ==
  /\ pc[t] = "foreach_removed"
  /\ Goto(t, "foreach_body")
  /\ hist' = Touch(t, loc[t].item)
  /\ UNCHANGED <<list, loc>>

\* !load(item->removed): the body runs only for a node that is not removed.
foreach_removed(t) ==
  /\ pc[t] = "foreach_removed"
  /\ \E r \in LoadFlag(loc[t].item) :
       IF r = 0
         THEN Goto(t, "foreach_body") /\ UNCHANGED loc
         ELSE Advance(t, loc[t])
  /\ hist' = Touch(t, loc[t].item)
  /\ UNCHANGED list

\* The record of what a traversal yielded, kept up to MaxNodes + 1 entries
\* (a walk through released storage need not end).
Yield(out, e) == IF Len(out) <= MaxNodes THEN Append(out, e) ELSE out

\* The loop body: the node is yielded (with its id when the body reads it).
\* The body of a deleting iteration then keeps the node, or calls lfl_delete
\* on it.
foreach_body(t) ==
  /\ pc[t] = "foreach_body"
  /\ IF loc[t].op = "count"
       THEN /\ Advance(t, [loc[t] EXCEPT !.out = Yield(@, <<loc[t].item, 0>>)])
            /\ UNCHANGED hist
       ELSE /\ \E v \in LoadId(loc[t].item) :
                 LET r == [loc[t] EXCEPT !.out = Yield(@, <<loc[t].item, v>>)]
                 IN IF loc[t].op = "iterdel"
                      THEN \E d \in BOOLEAN :
                             IF d THEN SetLoc(t, r) /\ Goto(t, "delete_load_prev")
                                  ELSE Advance(t, r)
                      ELSE Advance(t, r)
            /\ hist' = Touch(t, loc[t].item)
  /\ UNCHANGED list

\* An iterator without a stash: after the body has deleted the node it loads
\* item->next from it.
foreach_deleted_unstashed(t) ==
  /\ pc[t] = "foreach_deleted"
  /\ \E v \in LoadPtr(next, loc[t].item) :
       Advance(t, [loc[t] EXCEPT !.next = v])
  /\ hist' = Touch(t, loc[t].item)
  /\ UNCHANGED list

\* The body has deleted the node: it breaks out of the loop, or the loop
\* goes on with item = item_next, the next it stashed before the body.
foreach_deleted(t) ==
  /\ pc[t] = "foreach_deleted"
  /\ \E brk \in BOOLEAN :
       IF brk THEN Goto(t, "foreach_done") /\ UNCHANGED loc
              ELSE Advance(t, loc[t])
  /\ UNCHANGED <<list, hist>>

\* The body of the cleaner's loop of the sample has deleted the node and
\* does not break: the loop goes on with item = item_next.
cleaner_deleted(t) ==
  /\ pc[t] = "foreach_deleted"
  /\ Advance(t, loc[t])
  /\ UNCHANGED <<list, hist>>

\* The loop has ended; loc.out holds what it yielded.
foreach_done(t) ==
  /\ pc[t] = "foreach_done"
  /\ SetLoc(t, NoLoc)
  /\ Return(t)
  /\ UNCHANGED <<list, hist>>

foreach(t) ==
  \/ foreach_head(t, "iterate")
  \/ foreach_next(t)
  \/ foreach_removed(t)
  \/ foreach_body(t)
  \/ foreach_done(t)

\* ---------------------------------------------------------------- lfl_find
\* item = NULL; cursor = load(head).  loc.exp is the cursor, loc.val the value.
find_head(t) ==
  /\ Start(t)
  /\ \E v \in Values :
       SetLoc(t, [NoLoc EXCEPT !.op = "find", !.exp = head, !.val = v,
                               !.seen = hist.marked])
  /\ Goto(t, IF head = Null THEN "find_done" ELSE "find_removed")
  /\ hist' = Count
  /\ UNCHANGED list

\* A search that does not test the removed flag.
find_removed_ignored(t) ==
  /\ pc[t] = "find_removed"
  /\ Goto(t, "find_field")
  /\ hist' = Touch(t, loc[t].exp)
  /\ UNCHANGED <<list, loc>>

\* if (!load(cursor->removed))
find_removed(t) ==
  /\ pc[t] = "find_removed"
  /\ \E r \in LoadFlag(loc[t].exp) :
       Goto(t, IF r = 0 THEN "find_field" ELSE "find_next")
  /\ hist' = Touch(t, loc[t].exp)
  /\ UNCHANGED <<list, loc>>

\* if (cursor->field == value) { item = cursor; break; }
find_field(t) ==
  /\ pc[t] = "find_field"
  /\ \E v \in LoadId(loc[t].exp) :
       IF v = loc[t].val
         THEN /\ SetLoc(t, [loc[t] EXCEPT !.item = loc[t].exp])
              /\ Goto(t, "find_done")
         ELSE /\ Goto(t, "find_next")
              /\ UNCHANGED loc
  /\ hist' = Touch(t, loc[t].exp)
  /\ UNCHANGED list

\* cursor = load(cursor->next)
find_next(t) ==
  /\ pc[t] = "find_next"
  /\ \E v \in LoadPtr(next, loc[t].exp) :
       /\ SetLoc(t, [loc[t] EXCEPT !.exp = v])
       /\ Goto(t, IF v = Null THEN "find_done" ELSE "find_removed")
  /\ hist' = Touch(t, loc[t].exp)
  /\ UNCHANGED list

\* The search has ended; loc.item holds the match or null.
find_done(t) ==
  /\ pc[t] = "find_done"
  /\ SetLoc(t, NoLoc)
  /\ Return(t)
  /\ UNCHANGED <<list, hist>>

find(t) ==
  \/ find_head(t)
  \/ find_removed(t)
  \/ find_field(t)
  \/ find_next(t)
  \/ find_done(t)

\* ------------------------------------------- lfl_get_head / lfl_get_next walk
\* The caller's own walk: cursor = lfl_get_head(inst); while (cursor)
\* { count++; cursor = lfl_get_next(cursor); }.  loc.exp is the cursor,
\* loc.refs the count.
raw_head(t) ==
  /\ Start(t)
  /\ SetLoc(t, [NoLoc EXCEPT !.op = "raw", !.exp = head])
  /\ Goto(t, IF head = Null THEN "raw_done" ELSE "raw_next")
  /\ hist' = Count
  /\ UNCHANGED list

\* count++; cursor = load(cursor->next)
raw_next(t) ==
  /\ pc[t] = "raw_next"
  /\ \E v \in LoadPtr(next, loc[t].exp) :
       /\ SetLoc(t, [loc[t] EXCEPT !.exp = v,
                                   !.refs = Min({@ + 1, MaxNodes + 1})])
       /\ Goto(t, IF v = Null THEN "raw_done" ELSE "raw_next")
  /\ hist' = Touch(t, loc[t].exp)
  /\ UNCHANGED list

\* The walk has ended; loc.refs holds the count.
raw_done(t) ==
  /\ pc[t] = "raw_done"
  /\ SetLoc(t, NoLoc)
  /\ Return(t)
  /\ UNCHANGED <<list, hist>>

raw_walk(t) ==
  \/ raw_head(t)
  \/ raw_next(t)
  \/ raw_done(t)

\* -------------------------------------------------------------- lfl_remove
\* store(target->removed, 1).  The target is a node of the list the caller
\* holds a pointer to; the macro has returned after this one store.
RemovedValue == 1
remove(t) ==
  /\ Start(t)
  /\ \E n \in Reachable :
       /\ Live(n)
       /\ removed' = [removed EXCEPT ![n] = RemovedValue]
       /\ hist' = [Count EXCEPT !.marked = @ \cup {n}]
  /\ UNCHANGED <<head, tail, next, prev, refcount, id, status, pc, loc>>

\* A mark-removed that counts the calls: removed = removed + 1.
remove_again_counting(t) ==
  /\ Start(t)
  /\ \E n \in Reachable \cap hist.marked :
       /\ Live(n)
       /\ removed' = [removed EXCEPT ![n] = @ + 1]
       /\ SetLoc(t, [NoLoc EXCEPT !.op = "remove", !.item = n])
  /\ Goto(t, "remove_done")
  /\ hist' = Count
  /\ UNCHANGED <<head, tail, next, prev, refcount, id, status>>

\* lfl_remove on a chained node whose lfl_remove has returned before: the
\* same store once more.  loc.item keeps the target until the caller goes on.
remove_again(t) ==
  /\ Start(t)
  /\ \E n \in Reachable \cap hist.marked :
       /\ Live(n)
       /\ removed' = [removed EXCEPT ![n] = RemovedValue]
       /\ SetLoc(t, [NoLoc EXCEPT !.op = "remove", !.item = n])
  /\ Goto(t, "remove_done")
  /\ hist' = Count
  /\ UNCHANGED <<head, tail, next, prev, refcount, id, status>>

\* The second lfl_remove has returned.
remove_done(t) ==
  /\ pc[t] = "remove_done"
  /\ SetLoc(t, NoLoc)
  /\ Return(t)
  /\ UNCHANGED <<list, hist>>

\* -------------------------------------------- lfl_add_tail_ptr (attach-tail)
\* The caller's node: ptr = lfl_new(name); ptr->id = v.  Then the macro:
\* ptr->next = NULL; ptr->removed = 0; null_ptr = NULL.  The retry loop is
\* the text of lfl_add_tail, with ptr for item.
add_tail_ptr_new(t) ==
  /\ Start(t)
  /\ \E n \in Calloc, v \in Values :
       /\ Zeroed(n, v)
       /\ SetLoc(t, [NoLoc EXCEPT !.op = "attach", !.item = n, !.val = v])
       /\ hist' = Fresh(n)
  /\ Goto(t, "add_tail_load")
  /\ UNCHANGED <<head, tail>>

\* ------------------------------------------------------------ lfl_add_head
\* item = calloc(...); item->removed = 0.
add_head_alloc(t) ==
  /\ Start(t)
  /\ \E n \in Calloc, v \in Values :
       /\ Zeroed(n, 0)
       /\ SetLoc(t, [NoLoc EXCEPT !.op = "push", !.item = n, !.val = v])
       /\ hist' = Fresh(n)
  /\ Goto(t, "add_head_load")
  /\ UNCHANGED <<head, tail>>

\* old_head = load(head); item->next = old_head; item->prev = NULL.
add_head_load(t) ==
  /\ pc[t] = "add_head_load"
  /\ SetLoc(t, [loc[t] EXCEPT !.exp = head])
  /\ next' = [next EXCEPT ![loc[t].item] = head]
  /\ prev' = [prev EXCEPT ![loc[t].item] = Null]
  /\ Goto(t, "add_head_cas")
  /\ UNCHANGED <<head, tail, removed, refcount, id, status, hist>>

\* A push-head that stores head without comparing it with old_head.
add_head_store(t) ==
  /\ pc[t] = "add_head_cas"
  /\ head' = loc[t].item
  /\ Goto(t, IF loc[t].exp # Null THEN "add_head_set_prev"
                                  ELSE "add_head_set_tail")
  /\ UNCHANGED <<tail, next, prev, removed, refcount, id, status, loc, hist>>

\* while (!CAS(head, &old_head, item))
add_head_cas(t) ==
  /\ pc[t] = "add_head_cas"
  /\ IF head = loc[t].exp
       THEN /\ head' = loc[t].item
            /\ Goto(t, IF loc[t].exp # Null THEN "add_head_set_prev"
                                            ELSE "add_head_set_tail")
       ELSE /\ Goto(t, "add_head_load")
            /\ UNCHANGED head
  /\ UNCHANGED <<tail, next, prev, removed, refcount, id, status, loc, hist>>

\* if (old_head) store(old_head->prev, item)
add_head_set_prev(t) ==
  /\ pc[t] = "add_head_set_prev"
  /\ prev' = Store(prev, loc[t].exp, loc[t].item)
  /\ hist' = Touch(t, loc[t].exp)
  /\ Goto(t, "push_set_id")
  /\ UNCHANGED <<head, tail, next, removed, refcount, id, status, loc>>

\* else store(tail, item)
add_head_set_tail(t) ==
  /\ pc[t] = "add_head_set_tail"
  /\ tail' = loc[t].item
  /\ Goto(t, "push_set_id")
  /\ UNCHANGED <<head, next, prev, removed, refcount, id, status, loc, hist>>

add_head(t) ==
  \/ add_head_alloc(t)
  \/ add_head_load(t)
  \/ add_head_cas(t)
  \/ add_head_set_prev(t)
  \/ add_head_set_tail(t)

\* -------------------------------------------- lfl_add_head_ptr (attach-head)
\* ptr = lfl_new(name); ptr->id = v; then ptr->removed = 0 and the retry loop
\* of lfl_add_head, with ptr for item.
add_head_ptr_new(t) ==
  /\ Start(t)
  /\ \E n \in Calloc, v \in Values :
       /\ Zeroed(n, v)
       /\ SetLoc(t, [NoLoc EXCEPT !.op = "attach", !.item = n, !.val = v])
       /\ hist' = Fresh(n)
  /\ Goto(t, "add_head_load")
  /\ UNCHANGED <<head, tail>>

\* ------------------------------------------------- the user's refcount store
\* atomic_store(&n->refcount, v) by a user of a node of the list.
set_ref(t) ==
  /\ Start(t)
  /\ \E n \in Reachable, v \in 0..MaxRef :
       /\ Live(n)
       /\ v # refcount[n]
       /\ refcount' = [refcount EXCEPT ![n] = v]
  /\ hist' = Count
  /\ UNCHANGED <<head, tail, next, prev, removed, id, status, pc, loc>>

\* --------------------------------------------------------------- lfl_sweep
\* The nodes of the chain that are removed with refcount zero.
Reapable == {n \in Reachable : Live(n) /\ removed[n] # 0 /\ refcount[n] = 0}

\* prev = NULL; curr = load(head); cleanup_fn = the finalizer or NULL
\* (loc.val = 1 when a finalizer was passed).  With snap, loc.pre and
\* loc.seen keep the chain and its reapable nodes as the sweep found them.
sweep_head(t, snap) ==
  /\ Start(t)
  /\ \E f \in {0, 1} :
       SetLoc(t, [NoLoc EXCEPT !.op = "sweep", !.curr = head, !.val = f,
                               !.pre = IF snap THEN Chain ELSE <<>>,
                               !.seen = IF snap THEN Reapable ELSE {}])
  /\ Goto(t, IF head = Null THEN "sweep_done" ELSE "sweep_next")
  /\ hist' = Count
  /\ UNCHANGED list

\* next = load(curr->next)
sweep_next(t) ==
  /\ pc[t] = "sweep_next"
  /\ \E v \in LoadPtr(next, loc[t].curr) :
       SetLoc(t, [loc[t] EXCEPT !.next = v])
  /\ hist' = Touch(t, loc[t].curr)
  /\ Goto(t, "sweep_removed")
  /\ UNCHANGED list

\* removed = load(curr->removed)
sweep_removed(t) ==
  /\ pc[t] = "sweep_removed"
  /\ \E v \in LoadFlag(loc[t].curr) :
       SetLoc(t, [loc[t] EXCEPT !.removed = v])
  /\ hist' = Touch(t, loc[t].curr)
  /\ Goto(t, "sweep_refs")
  /\ UNCHANGED list

\* A sweep that does not look at the refcount.
EligibleAnyRefs(rem, refs) == rem # 0

\* The test that makes a node a candidate of the sweep.
Eligible(rem, refs) == rem # 0 /\ refs = 0

\* refs = load(curr->ref); if (removed && refs == 0) the node is reaped,
\* else prev = curr; curr = next.
sweep_refs(t) ==
  /\ pc[t] = "sweep_refs"
  /\ \E v \in LoadRef(loc[t].curr) :
       IF Eligible(loc[t].removed, v)
         THEN /\ SetLoc(t, [loc[t] EXCEPT !.refs = v])
              /\ Goto(t, "sweep_cas")
         ELSE /\ SetLoc(t, [loc[t] EXCEPT !.refs = 0, !.removed = 0,
                              !.prev = loc[t].curr, !.curr = loc[t].next,
                              !.next = Null])
              /\ Goto(t, IF loc[t].next = Null THEN "sweep_done"
                                               ELSE "sweep_next")
  /\ hist' = Touch(t, loc[t].curr)
  /\ UNCHANGED list

\* The state of node n is not "removed with refcount zero".
NotReapable(n) == ~(Live(n) /\ removed[n] # 0 /\ refcount[n] = 0)

\* expected = curr; CAS(prev->next, &expected, next) when prev is not null,
\* CAS(head, &expected, next) otherwise.  On failure prev = NULL and the walk
\* restarts from head.
sweep_cas(t) ==
  /\ pc[t] = "sweep_cas"
  /\ LET p == loc[t].prev
         c == loc[t].curr
     IN IF p # Null
          THEN /\ \E cur \in LoadPtr(next, p) :
                    IF cur = c
                      THEN /\ next' = Store(next, p, loc[t].next)
                           /\ Goto(t, "sweep_free")
                           /\ hist' = [Touch(t, p) EXCEPT
                                 !.reapbad = @ \/ NotReapable(c)]
                           /\ UNCHANGED loc
                      ELSE /\ UNCHANGED next
                           /\ Goto(t, "sweep_reload")
                           /\ hist' = Touch(t, p)
                           /\ SetLoc(t, [loc[t] EXCEPT !.prev = Null])
               /\ UNCHANGED head
          ELSE /\ IF head = c
                    THEN /\ head' = loc[t].next
                         /\ Goto(t, "sweep_free")
                         /\ hist' = [hist EXCEPT
                               !.reapbad = @ \/ NotReapable(c)]
                         /\ UNCHANGED loc
                    ELSE /\ UNCHANGED <<head, hist>>
                         /\ Goto(t, "sweep_reload")
                         /\ SetLoc(t, [loc[t] EXCEPT !.prev = Null])
               /\ UNCHANGED next
  /\ UNCHANGED <<tail, prev, removed, refcount, id, status>>

\* curr = load(head) after a failed exchange
sweep_reload(t) ==
  /\ pc[t] = "sweep_reload"
  /\ SetLoc(t, [loc[t] EXCEPT !.curr = head, !.next = Null, !.removed = 0,
                              !.refs = 0])
  /\ Goto(t, IF head = Null THEN "sweep_done" ELSE "sweep_next")
  /\ UNCHANGED <<list, hist>>

\* A sweep that stops after the first node it reaped.
sweep_free_stop(t) ==
  /\ pc[t] = "sweep_free"
  /\ Free(loc[t].curr)
  /\ hist' = Gone(hist, loc[t].curr)
  /\ SetLoc(t, [loc[t] EXCEPT !.curr = Null, !.next = Null])
  /\ Goto(t, "sweep_done")
  /\ UNCHANGED <<head, tail>>

\* if (cleanup_fn) cleanup_fn(curr); free(curr); curr = next.
sweep_free(t) ==
  /\ pc[t] = "sweep_free"
  /\ LET c == loc[t].curr
         f == loc[t].val = 1
     IN /\ Free(c)
        /\ hist' = [Gone(hist, c) EXCEPT
                      !.fin = IF f THEN @ \cup {c} ELSE @,
                      !.dfin = @ \/ (f /\ (c \in hist.fin \/ ~Live(c))),
                      !.dfree = @ \/ ~Live(c)]
  /\ SetLoc(t, [loc[t] EXCEPT !.curr = loc[t].next, !.next = Null,
                              !.removed = 0, !.refs = 0])
  /\ Goto(t, IF loc[t].next = Null THEN "sweep_done" ELSE "sweep_next")
  /\ UNCHANGED <<head, tail>>

\* The walk has reached null: the macro returns.
sweep_done(t) ==
  /\ pc[t] = "sweep_done"
  /\ SetLoc(t, NoLoc)
  /\ Return(t)
  /\ UNCHANGED <<list, hist>>

sweep(t) ==
  \/ sweep_head(t, FALSE)
  \/ sweep_next(t)
  \/ sweep_removed(t)
  \/ sweep_refs(t)
  \/ sweep_cas(t)
  \/ sweep_reload(t)
  \/ sweep_free(t)
  \/ sweep_done(t)

\* ------------------------------------------------------------ lfl_pop_head
\* item = NULL (the caller's variable); cursor = load(head); while (cursor).
\* loc.pre keeps the chain as the call found it.
pop_head_load(t) ==
  /\ Start(t)
  /\ SetLoc(t, [NoLoc EXCEPT !.op = "pop", !.exp = head, !.pre = Chain])
  /\ Goto(t, IF head = Null THEN "pop_done" ELSE "pop_head_next")
  /\ hist' = Count
  /\ UNCHANGED list

\* next = load(cursor->next)
pop_head_next(t) ==
  /\ pc[t] = "pop_head_next"
  /\ \E v \in LoadPtr(next, loc[t].exp) :
       SetLoc(t, [loc[t] EXCEPT !.next = v])
  /\ hist' = Touch(t, loc[t].exp)
  /\ Goto(t, "pop_head_cas")
  /\ UNCHANGED list

\* CAS(head, &cursor, next): on success item = cursor, on failure cursor
\* holds the head that was seen and the loop tests it.
pop_head_cas(t) ==
  /\ pc[t] = "pop_head_cas"
  /\ IF head = loc[t].exp
       THEN /\ head' = loc[t].next
            /\ SetLoc(t, [loc[t] EXCEPT !.item = loc[t].exp])
            /\ Goto(t, IF loc[t].next = Null THEN "pop_head_tail"
                                             ELSE "pop_clear_next")
       ELSE /\ UNCHANGED head
            /\ SetLoc(t, [loc[t] EXCEPT !.exp = head, !.next = Null])
            /\ Goto(t, IF head = Null THEN "pop_done" ELSE "pop_head_next")
  /\ UNCHANGED <<tail, next, prev, removed, refcount, id, status, hist>>

\* A pop that takes the last node out and leaves tail as it is.
pop_head_tail_kept(t) ==
  /\ pc[t] = "pop_head_tail"
  /\ Goto(t, "pop_clear_next")
  /\ UNCHANGED <<list, loc, hist>>

\* if (!next) store(tail, NULL)
pop_head_tail(t) ==
  /\ pc[t] = "pop_head_tail"
  /\ tail' = Null
  /\ Goto(t, "pop_clear_next")
  /\ UNCHANGED <<head, next, prev, removed, refcount, id, status, loc, hist>>

\* store(item->next, NULL)
pop_clear_next(t) ==
  /\ pc[t] = "pop_clear_next"
  /\ next' = Store(next, loc[t].item, Null)
  /\ hist' = Touch(t, loc[t].item)
  /\ Goto(t, "pop_clear_prev")
  /\ UNCHANGED <<head, tail, prev, removed, refcount, id, status, loc>>

\* store(item->prev, NULL)
pop_clear_prev(t) ==
  /\ pc[t] = "pop_clear_prev"
  /\ prev' = Store(prev, loc[t].item, Null)
  /\ hist' = Touch(t, loc[t].item)
  /\ Goto(t, "pop_done")
  /\ UNCHANGED <<head, tail, next, removed, refcount, id, status, loc>>

\* The macro returns; item is the popped node, or null.
pop_done(t) ==
  /\ pc[t] = "pop_done"
  /\ hist' = IF loc[t].item = Null THEN hist
             ELSE [hist EXCEPT !.popped[loc[t].item] =
                                   IF @ < 2 THEN @ + 1 ELSE @]
  /\ SetLoc(t, NoLoc)
  /\ Return(t)
  /\ UNCHANGED list

pop_head(t) ==
  \/ pop_head_load(t)
  \/ pop_head_next(t)
  \/ pop_head_cas(t)
  \/ pop_head_tail(t)
  \/ pop_clear_next(t)
  \/ pop_clear_prev(t)
  \/ pop_done(t)

\* ------------------------------------------------- nodes the caller holds
\* The nodes a pop returned to the caller, who has neither freed nor
\* attached them since.
Held == {n \in Nodes : Live(n) /\ hist.popped[n] > 0}

\* free(popped): the caller releases a node a pop returned.
free_popped(t) ==
  /\ Start(t)
  /\ \E n \in Held :
       /\ Free(n)
       /\ hist' = Gone(Count, n)
  /\ UNCHANGED <<head, tail, pc, loc>>

\* -------------------------------------------------------------- lfl_delete
\* The call lfl_delete(name, inst, ptr) on a node of the list, or on a node
\* a pop returned.  loc.item is ptr, loc.prev the macro's prev, loc.curr the
\* macro's next (loc.next is the stash of an iteration whose body deletes);
\* loc.pre keeps the chain as the call found it.
delete_call(t) ==
  /\ Start(t)
  /\ \E n \in Reachable \cup Held :
       /\ Live(n)
       /\ SetLoc(t, [NoLoc EXCEPT !.op = "delete", !.item = n, !.pre = Chain])
  /\ Goto(t, "delete_load_prev")
  /\ hist' = Count
  /\ UNCHANGED list

\* The call lfl_delete(name, inst, ptr) by a thread that deletes a node of
\* the list no other thread is deleting.
delete_call_own(t) ==
  /\ Start(t)
  /\ \E n \in Nodes :
       /\ Live(n)
       /\ \A u \in Threads \ {t} : ~(loc[u].op = "delete" /\ loc[u].item = n)
       /\ SetLoc(t, [NoLoc EXCEPT !.op = "delete", !.item = n, !.pre = Chain])
  /\ Goto(t, "delete_load_prev")
  /\ hist' = Count
  /\ UNCHANGED list

\* prev = load(ptr->prev)
delete_load_prev(t) ==
  /\ pc[t] = "delete_load_prev"
  /\ \E v \in LoadPtr(prev, loc[t].item) :
       SetLoc(t, [loc[t] EXCEPT !.prev = v])
  /\ hist' = Touch(t, loc[t].item)
  /\ Goto(t, "delete_load_next")
  /\ UNCHANGED list

\* next = load(ptr->next)
delete_load_next(t) ==
  /\ pc[t] = "delete_load_next"
  /\ \E v \in LoadPtr(next, loc[t].item) :
       SetLoc(t, [loc[t] EXCEPT !.curr = v])
  /\ hist' = Touch(t, loc[t].item)
  /\ Goto(t, "delete_cas_fwd")
  /\ UNCHANGED list

\* expected = ptr; CAS(prev->next, &expected, next) when prev is not null,
\* CAS(head, &expected, next) otherwise.  The result is ignored.
delete_cas_fwd(t) ==
  /\ pc[t] = "delete_cas_fwd"
  /\ LET p == loc[t].prev
     IN IF p # Null
          THEN /\ \E cur \in LoadPtr(next, p) :
                    next' = IF cur = loc[t].item
                              THEN Store(next, p, loc[t].curr) ELSE next
               /\ hist' = Touch(t, p)
               /\ UNCHANGED head
          ELSE /\ head' = IF head = loc[t].item THEN loc[t].curr ELSE head
               /\ UNCHANGED <<next, hist>>
  /\ Goto(t, "delete_cas_back")
  /\ UNCHANGED <<tail, prev, removed, refcount, id, status, loc>>

\* expected = ptr; CAS(next->prev, &expected, prev) when next is not null,
\* CAS(tail, &expected, prev) otherwise.  The result is ignored.
delete_cas_back(t) ==
  /\ pc[t] = "delete_cas_back"
  /\ LET x == loc[t].curr
     IN IF x # Null
          THEN /\ \E cur \in LoadPtr(prev, x) :
                    prev' = IF cur = loc[t].item
                              THEN Store(prev, x, loc[t].prev) ELSE prev
               /\ hist' = Touch(t, x)
               /\ UNCHANGED tail
          ELSE /\ tail' = IF tail = loc[t].item THEN loc[t].prev ELSE tail
               /\ UNCHANGED <<prev, hist>>
  /\ Goto(t, "delete_free")
  /\ UNCHANGED <<head, next, removed, refcount, id, status, loc>>

\* free(ptr): the macro returns, to its caller or to the body of the
\* iteration that called it.
delete_free(t) ==
  /\ pc[t] = "delete_free"
  /\ LET n == loc[t].item
     IN /\ Free(n)
        /\ hist' = [Gone(hist, n) EXCEPT !.dfree = @ \/ ~Live(n)]
        /\ SetLoc(t, [loc[t] EXCEPT !.del = @ \cup {n}, !.prev = Null,
                                    !.curr = Null])
  /\ Goto(t, IF loc[t].op = "iterdel" THEN "foreach_deleted" ELSE "delete_done")
  /\ UNCHANGED <<head, tail>>

\* The macro has returned.
delete_done(t) ==
  /\ pc[t] = "delete_done"
  /\ SetLoc(t, NoLoc)
  /\ Return(t)
  /\ UNCHANGED <<list, hist>>

\* The steps of lfl_delete after the call.
delete_steps(t) ==
  \/ delete_load_prev(t)
  \/ delete_load_next(t)
  \/ delete_cas_fwd(t)
  \/ delete_cas_back(t)
  \/ delete_free(t)

delete(t) ==
  \/ delete_call(t)
  \/ delete_steps(t)
  \/ delete_done(t)

\* ------------------------------------------------------------ lfl_pop_tail
\* The loop test of the walk: while (curr && curr != cursor_tail).
PopTailTest(curr, cursor_tail) ==
  IF curr = Null THEN "pop_done"
  ELSE IF curr # cursor_tail THEN "pop_tail_walk"
  ELSE "pop_tail_cas"

\* A pop-tail whose result variable starts with whatever the caller's
\* variable held, not with null.
pop_tail_load_unset(t) ==
  /\ Start(t)
  /\ \E n \in NodeOrNull :
       SetLoc(t, [NoLoc EXCEPT !.op = "poptail", !.exp = tail, !.pre = Chain,
                               !.item = n])
  /\ Goto(t, IF tail = Null THEN "pop_done" ELSE "pop_tail_head")
  /\ hist' = Count
  /\ UNCHANGED list

\* item = NULL (the caller's variable); cursor_tail = load(tail);
\* while (cursor_tail).  loc.pre keeps the chain as the call found it.
pop_tail_load(t) ==
  /\ Start(t)
  /\ SetLoc(t, [NoLoc EXCEPT !.op = "poptail", !.exp = tail, !.pre = Chain])
  /\ Goto(t, IF tail = Null THEN "pop_done" ELSE "pop_tail_head")
  /\ hist' = Count
  /\ UNCHANGED list

\* prev = NULL; curr = load(head); the loop test; if (!curr) break.
pop_tail_head(t) ==
  /\ pc[t] = "pop_tail_head"
  /\ SetLoc(t, [loc[t] EXCEPT !.prev = Null, !.curr = head])
  /\ Goto(t, PopTailTest(head, loc[t].exp))
  /\ UNCHANGED <<list, hist>>

\* prev = curr; curr = load(curr->next); the loop test; if (!curr) break.
pop_tail_walk(t) ==
  /\ pc[t] = "pop_tail_walk"
  /\ \E v \in LoadPtr(next, loc[t].curr) :
       /\ SetLoc(t, [loc[t] EXCEPT !.prev = loc[t].curr, !.curr = v])
       /\ Goto(t, PopTailTest(v, loc[t].exp))
  /\ hist' = Touch(t, loc[t].curr)
  /\ UNCHANGED list

\* CAS(tail, &cursor_tail, prev) when prev is not null, CAS(head,
\* &cursor_tail, NULL) otherwise; item = curr on success.
pop_tail_cas(t) ==
  /\ pc[t] = "pop_tail_cas"
  /\ IF loc[t].prev # Null
       THEN IF tail = loc[t].exp
              THEN /\ tail' = loc[t].prev
                   /\ SetLoc(t, [loc[t] EXCEPT !.item = loc[t].curr])
                   /\ Goto(t, "pop_tail_unlink")
                   /\ UNCHANGED head
              ELSE /\ Goto(t, "pop_tail_reload")
                   /\ UNCHANGED <<head, tail, loc>>
       ELSE IF head = loc[t].exp
              THEN /\ head' = Null
                   /\ SetLoc(t, [loc[t] EXCEPT !.item = loc[t].curr])
                   /\ Goto(t, "pop_head_tail")
                   /\ UNCHANGED tail
              ELSE /\ Goto(t, "pop_tail_reload")
                   /\ UNCHANGED <<head, tail, loc>>
  /\ UNCHANGED <<next, prev, removed, refcount, id, status, hist>>

\* A pop-tail that moves tail and leaves prev->next pointing to the node it
\* returns.
pop_tail_unlink_skipped(t) ==
  /\ pc[t] = "pop_tail_unlink"
  /\ Goto(t, "pop_clear_next")
  /\ UNCHANGED <<list, loc, hist>>

\* store(prev->next, NULL)
pop_tail_unlink(t) ==
  /\ pc[t] = "pop_tail_unlink"
  /\ next' = Store(next, loc[t].prev, Null)
  /\ hist' = Touch(t, loc[t].prev)
  /\ Goto(t, "pop_clear_next")
  /\ UNCHANGED <<head, tail, prev, removed, refcount, id, status, loc>>

\* cursor_tail = load(tail) after a failed exchange; while (cursor_tail)
pop_tail_reload(t) ==
  /\ pc[t] = "pop_tail_reload"
  /\ SetLoc(t, [loc[t] EXCEPT !.exp = tail, !.prev = Null, !.curr = Null])
  /\ Goto(t, IF tail = Null THEN "pop_done" ELSE "pop_tail_head")
  /\ UNCHANGED <<list, hist>>

\* The steps of lfl_pop_tail that a single thread takes (the store of null
\* into tail and the clearing of the item's links are the steps of these
\* names of lfl_pop_head: the same stores).
pop_tail_steps(t) ==
  \/ pop_tail_load(t)
  \/ pop_tail_head(t)
  \/ pop_tail_walk(t)
  \/ pop_tail_cas(t)
  \/ pop_tail_unlink(t)

pop_tail(t) ==
  \/ pop_tail_steps(t)
  \/ pop_tail_reload(t)

\* ----------------------------------------------- lfl_count_pending_cleanup
\* _pending = 0; cursor = load(head).  loc.exp is the cursor, loc.val the
\* macro's _pending.
pending_head(t) ==
  /\ Start(t)
  /\ SetLoc(t, [NoLoc EXCEPT !.op = "pending", !.exp = head])
  /\ Goto(t, IF head = Null THEN "pending_done" ELSE "pending_removed")
  /\ hist' = Count
  /\ UNCHANGED list

\* removed = load(cursor->removed)
pending_removed(t) ==
  /\ pc[t] = "pending_removed"
  /\ \E v \in LoadFlag(loc[t].exp) :
       SetLoc(t, [loc[t] EXCEPT !.removed = v])
  /\ hist' = Touch(t, loc[t].exp)
  /\ Goto(t, "pending_refs")
  /\ UNCHANGED list

\* A count that takes every removed node for pending.
PendingAnyRefs(rem, refs) == rem # 0

\* The test that makes a node count as pending cleanup.
Pending(rem, refs) == rem # 0 /\ refs > 0

\* refs = load(cursor->ref); if (removed && refs > 0) _pending++
pending_refs(t) ==
  /\ pc[t] = "pending_refs"
  /\ \E v \in LoadRef(loc[t].exp) :
       SetLoc(t, [loc[t] EXCEPT
                    !.removed = 0,
                    !.val = IF Pending(loc[t].removed, v) /\ @ <= MaxNodes
                              THEN @ + 1 ELSE @])
  /\ hist' = Touch(t, loc[t].exp)
  /\ Goto(t, "pending_next")
  /\ UNCHANGED list

\* cursor = load(cursor->next); while (cursor)
pending_next(t) ==
  /\ pc[t] = "pending_next"
  /\ \E v \in LoadPtr(next, loc[t].exp) :
       /\ SetLoc(t, [loc[t] EXCEPT !.exp = v])
       /\ Goto(t, IF v = Null THEN "pending_done" ELSE "pending_removed")
  /\ hist' = Touch(t, loc[t].exp)
  /\ UNCHANGED list

\* out = _pending: the macro has returned, loc.val is the count.
pending_done(t) ==
  /\ pc[t] = "pending_done"
  /\ SetLoc(t, NoLoc)
  /\ Return(t)
  /\ UNCHANGED <<list, hist>>

count_pending_cleanup(t) ==
  \/ pending_head(t)
  \/ pending_removed(t)
  \/ pending_refs(t)
  \/ pending_next(t)
  \/ pending_done(t)

\* ------------------------------------ attach of a node that a pop returned
\* lfl_add_tail_ptr(name, inst, ptr) with a node the caller holds:
\* ptr->next = NULL; ptr->removed = 0; null_ptr = NULL; then the retry loop.
add_tail_ptr_held(t) ==
  /\ Start(t)
  /\ \E n \in Held :
       /\ next' = [next EXCEPT ![n] = Null]
       /\ removed' = [removed EXCEPT ![n] = 0]
       /\ SetLoc(t, [NoLoc EXCEPT !.op = "attach", !.item = n, !.val = id[n]])
       /\ hist' = [Count EXCEPT !.popped[n] = 0]
  /\ Goto(t, "add_tail_load")
  /\ UNCHANGED <<head, tail, prev, refcount, id, status>>

\* An attach that clears the whole node: refcount = 0 as well.
add_head_ptr_held_zeroed(t) ==
  /\ Start(t)
  /\ \E n \in Held :
       /\ removed' = [removed EXCEPT ![n] = 0]
       /\ refcount' = [refcount EXCEPT ![n] = 0]
       /\ SetLoc(t, [NoLoc EXCEPT !.op = "attach", !.item = n, !.val = id[n]])
       /\ hist' = [Count EXCEPT !.popped[n] = 0]
  /\ Goto(t, "add_head_load")
  /\ UNCHANGED <<head, tail, next, prev, id, status>>

\* lfl_add_head_ptr(name, inst, ptr) with a node the caller holds:
\* ptr->removed = 0; then the retry loop.
add_head_ptr_held(t) ==
  /\ Start(t)
  /\ \E n \in Held :
       /\ removed' = [removed EXCEPT ![n] = 0]
       /\ SetLoc(t, [NoLoc EXCEPT !.op = "attach", !.item = n, !.val = id[n]])
       /\ hist' = [Count EXCEPT !.popped[n] = 0]
  /\ Goto(t, "add_head_load")
  /\ UNCHANGED <<head, tail, next, prev, refcount, id, status>>

\* --------------------------------------------------------------- lfl_clear
\* cursor = load(head).  loc.exp is the cursor, loc.pre the chain the call
\* found, loc.del the nodes it has passed to free.
clear_head(t) ==
  /\ Start(t)
  /\ SetLoc(t, [NoLoc EXCEPT !.op = "clear", !.exp = head, !.pre = Chain])
  /\ Goto(t, IF head = Null THEN "clear_store_head" ELSE "clear_next")
  /\ hist' = Count
  /\ UNCHANGED list

\* next = load(cursor->next)
clear_next(t) ==
  /\ pc[t] = "clear_next"
  /\ \E v \in LoadPtr(next, loc[t].exp) :
       SetLoc(t, [loc[t] EXCEPT !.next = v])
  /\ hist' = Touch(t, loc[t].exp)
  /\ Goto(t, "clear_free")
  /\ UNCHANGED list

\* free(cursor); cursor = next; and the loop test.
clear_free(t) ==
  /\ pc[t] = "clear_free"
  /\ LET n == loc[t].exp
     IN /\ Free(n)
        /\ hist' = [Gone(hist, n) EXCEPT !.dfree = @ \/ ~Live(n)]
        /\ SetLoc(t, [loc[t] EXCEPT !.exp = loc[t].next, !.next = Null,
                                    !.del = @ \cup {n}])
  /\ Goto(t, IF loc[t].next = Null THEN "clear_store_head" ELSE "clear_next")
  /\ UNCHANGED <<head, tail>>

\* store(head, NULL)
clear_store_head(t) ==
  /\ pc[t] = "clear_store_head"
  /\ head' = Null
  /\ Goto(t, "clear_store_tail")
  /\ UNCHANGED <<tail, next, prev, removed, refcount, id, status, loc, hist>>

\* store(tail, NULL)
clear_store_tail(t) ==
  /\ pc[t] = "clear_store_tail"
  /\ tail' = Null
  /\ Goto(t, "clear_done")
  /\ UNCHANGED <<head, next, prev, removed, refcount, id, status, loc, hist>>

\* The macro has returned.
clear_done(t) ==
  /\ pc[t] = "clear_done"
  /\ SetLoc(t, NoLoc)
  /\ Return(t)
  /\ UNCHANGED <<list, hist>>

clear(t) ==
  \/ clear_head(t)
  \/ clear_next(t)
  \/ clear_free(t)
  \/ clear_store_head(t)
  \/ clear_store_tail(t)
  \/ clear_done(t)

\* --------------------------------------------------------- specifications
AllIdle == \A t \in Threads : Idle(t)

\* One thread that appends and iterates.
NextTail ==
  \E t \in Single :
    \/ add_tail(t)
    \/ push_set_id(t)
    \/ foreach(t)
SpecTail == Init /\ [][NextTail]_vars

\* One thread that inserts, marks nodes removed, stores refcounts and sweeps.
\* No exchange of a single-threaded sweep fails, so sweep_reload is not a
\* step of this specification.
NextSweepSeq ==
  \E t \in Single :
    \/ add_tail(t)
    \/ add_head(t)
    \/ push_set_id(t)
    \/ remove(t)
    \/ set_ref(t)
    \/ sweep_head(t, TRUE)
    \/ sweep_next(t)
    \/ sweep_removed(t)
    \/ sweep_refs(t)
    \/ sweep_cas(t)
    \/ sweep_free(t)
    \/ sweep_done(t)
SpecSweepSeq == Init /\ [][NextSweepSeq]_vars

\* One thread inserts and marks nodes removed; it and a second thread
\* iterate, count and search, so a traversal runs both after and during the
\* writer's operations.
Writers == {1}
NextIter ==
  \/ \E t \in Writers :
       \/ add_tail(t)
       \/ add_head(t)
       \/ push_set_id(t)
       \/ remove(t)
  \/ \E t \in Threads :
       \/ foreach(t)
       \/ foreach_head(t, "count")
       \/ find(t)
SpecIter == InitEmpty(MaxConcOps) /\ [][NextIter]_vars

\* A producer and a consumer of a work queue: the first thread appends,
\* the second one pops from the head.
Producers == {1}
Consumers == {2}
NextPushPop ==
  \/ \E t \in Producers :
       \/ add_tail(t)
       \/ push_set_id(t)
  \/ \E t \in Consumers : pop_head(t)
SpecPushPop == InitEmpty(MaxConcOps) /\ [][NextPushPop]_vars

\* Two threads that insert at both ends, with and without their own node.
NextInsert ==
  \E t \in Threads :
    \/ add_tail(t)
    \/ add_tail_ptr_new(t)
    \/ add_head(t)
    \/ add_head_ptr_new(t)
    \/ push_set_id(t)
SpecInsert == InitEmpty(MaxConcOps) /\ [][NextInsert]_vars

\* The list that MaxNodes push-tails leave: 1 -> 2 -> ... -> MaxNodes.
InitChain ==
  /\ head = 1
  /\ tail = MaxNodes
  /\ next = [n \in Nodes |-> IF n = MaxNodes THEN Null ELSE n + 1]
  /\ prev = [n \in Nodes |-> n - 1]
  /\ removed = [n \in Nodes |-> 0]
  /\ refcount = [n \in Nodes |-> 0]
  /\ id = [n \in Nodes |-> 1]
  /\ status = [n \in Nodes |-> "live"]
  /\ pc = [t \in Threads |-> "idle"]
  /\ loc = [t \in Threads |-> NoLoc]
  /\ hist = [NoHist EXCEPT !.pushed = [n \in Nodes |-> <<n, 1>>],
                           !.left = MaxConcOps]

\* Two threads that mark nodes removed, store refcounts, iterate and sweep
\* a list of MaxNodes nodes.
NextReclaim ==
  \E t \in Threads :
    \/ remove(t)
    \/ set_ref(t)
    \/ foreach_head(t, "count")
    \/ foreach_next(t)
    \/ foreach_removed(t)
    \/ foreach_body(t)
    \/ foreach_done(t)
    \/ sweep(t)
SpecReclaim == InitChain /\ [][NextReclaim]_vars

\* The steps of lfl_sweep a thread takes when it sweeps without recording
\* what it found.
sweep_steps(t) ==
  \/ sweep_head(t, FALSE)
  \/ sweep_next(t)
  \/ sweep_removed(t)
  \/ sweep_refs(t)
  \/ sweep_cas(t)
  \/ sweep_free(t)
  \/ sweep_done(t)

\* One thread that uses every operation on nodes: it inserts at both ends,
\* marks nodes removed, deletes, pops at both ends, frees or attaches again
\* what it popped, and sweeps.
NextSeq ==
  \E t \in Single :
    \/ add_tail(t)
    \/ add_tail_ptr_held(t)
    \/ add_head(t)
    \/ add_head_ptr_held(t)
    \/ push_set_id(t)
    \/ remove(t)
    \/ delete(t)
    \/ pop_head(t)
    \/ pop_tail_steps(t)
    \/ free_popped(t)
    \/ sweep_steps(t)
    \/ sweep_reload(t)
SpecSeq == InitEmpty(MaxSeqOps) /\ [][NextSeq]_vars

\* One thread that inserts at both ends, marks nodes removed, iterates with a
\* body that deletes some of the nodes it is given (and then breaks or goes
\* on), and iterates again.
NextIterDelete ==
  \E t \in Single :
    \/ add_tail(t)
    \/ add_head(t)
    \/ push_set_id(t)
    \/ remove(t)
    \/ foreach_head(t, "iterdel")
    \/ foreach(t)
    \/ delete_steps(t)
    \/ foreach_deleted(t)
SpecIterDelete == InitEmpty(MaxSeqOps) /\ [][NextIterDelete]_vars

\* One thread that inserts at both ends, pops at both ends and frees what it
\* popped.
NextPop ==
  \E t \in Single :
    \/ add_tail(t)
    \/ add_head(t)
    \/ push_set_id(t)
    \/ pop_head(t)
    \/ pop_tail_steps(t)
    \/ free_popped(t)
SpecPop == InitEmpty(MaxSeqOps) /\ [][NextPop]_vars

\* One thread that appends, marks nodes removed, stores refcounts, sweeps and
\* counts the nodes that wait for cleanup.
NextPending ==
  \E t \in Single :
    \/ add_tail(t)
    \/ push_set_id(t)
    \/ remove(t)
    \/ set_ref(t)
    \/ sweep_steps(t)
    \/ count_pending_cleanup(t)
SpecPending == Init /\ [][NextPending]_vars

\* ------------------------------------------------------------------ claims
\* C1: a traversal (iterate, count-live, find-by-field) that starts after
\* lfl_remove(n) has returned never yields, counts or returns n, although n
\* is still in the chain.
C1_RemovedNotObserved ==
  \A t \in Threads :
    /\ \A i \in 1..Len(loc[t].out) : loc[t].out[i][1] \notin loc[t].seen
    /\ (loc[t].op = "find" => loc[t].item \notin loc[t].seen)

\* A traversal that started after a removal has ended: it yielded a node and
\* passed a removed node that is still chained.
C1_Witness ==
  \E t \in Threads :
    /\ pc[t] = "foreach_done"
    /\ loc[t].out # <<>>
    /\ loc[t].seen # {}
    /\ loc[t].seen \subseteq Reachable

C3_NoLossNoDuplicate ==
  AllIdle =>
    \A i \in 1..Len(hist.pushed) :
      LET n == hist.pushed[i][1]
      IN \/ hist.popped[n] = 1 /\ n \notin Reachable
         \/ hist.popped[n] = 0 /\ n \in Reachable

\* C4: with concurrent push-tail, push-head and attach only, at quiescence
\* every inserted node is exactly once in the chain from head, and tail is
\* the last node of the chain.
C4_AllInsertedChained ==
  AllIdle =>
    /\ \A i \in 1..Len(hist.pushed) : hist.pushed[i][1] \in Reachable
    /\ Len(Chain) = Len(hist.pushed)
    /\ ChainEnds
    /\ tail = IF Chain = <<>> THEN Null ELSE Last(Chain)

\* C5: a traversal that runs concurrently with sweep, lfl_remove and refcount
\* stores never reads a field of a node whose storage sweep has released.
C5_TraversalSafe == hist.uaf \cap {"iterate", "count", "find"} = {}

\* C6: whenever a reap CAS of sweep succeeds, the node is removed and its
\* refcount is zero at that moment, also when a user stores the refcount
\* concurrently.
C6_ReapOnlyEligible == ~hist.reapbad

\* C7: the finalizer is called exactly once per reaped node and the storage
\* of a node is released at most once, also with two concurrent sweeps.
C7_FinalizeOnce == ~hist.dfin /\ ~hist.dfree

\* C8: single-threaded, when sweep returns no node reachable from head is
\* removed with refcount zero, every node that was is released, and the other
\* nodes are the chain from head in their previous order.
C8_SweepReapsAll ==
  \A t \in Single :
    pc[t] = "sweep_done" =>
      LET Kept(n) == n \notin loc[t].seen
      IN /\ Reapable = {}
         /\ ChainOk
         /\ \A n \in loc[t].seen : status[n] = "freed"
         /\ Chain = SelectSeq(loc[t].pre, Kept)

\* A sweep has ended that found two reapable nodes and left a node.
C8_Witness ==
  \E t \in Single :
    /\ pc[t] = "sweep_done"
    /\ Cardinality(loc[t].seen) >= 2
    /\ Chain # <<>>

\* C9: a sweep on a list without a node that is removed with refcount zero
\* changes nothing: head, tail, links, flags, refcounts, ids and storage stay,
\* no finalizer runs and nothing is freed.
InSweep(t) ==
  pc[t] \in {"sweep_next", "sweep_removed", "sweep_refs", "sweep_cas",
             "sweep_reload", "sweep_free", "sweep_done"}
C9_SweepFrame ==
  [][\A t \in Single :
       \/ Idle(t) /\ Idle(t)'
       \/ ~Idle(t) /\ ~InSweep(t)
       \/ InSweep(t) /\ loc[t].seen # {}
       \/ Idle(t) /\ ~InSweep(t)'
       \/ /\ UNCHANGED list
          /\ hist'.fin = hist.fin]_vars

\* A sweep has walked past a removed node that is pinned by a refcount.
C9_Witness ==
  \E t \in Single :
    /\ pc[t] = "sweep_done"
    /\ loc[t].seen = {}
    /\ \E n \in Reachable : removed[n] # 0 /\ refcount[n] > 0

\* C10: single-threaded, after every operation head is null if and only if
\* tail is null.
C10_EndpointsAgree ==
  \A t \in Single : Idle(t) => (head = Null <=> tail = Null)

\* C11: single-threaded, after every operation (push-head, push-tail,
\* attach, mark-removed, delete, pop-head, pop-tail, sweep) the chain from
\* head consists of live nodes and ends in null, and tail is its last node
\* (null when the chain is empty): never a freed or popped node.
C11_TailIsLast ==
  \A t \in Single :
    Idle(t) =>
      /\ ChainOk
      /\ ChainEnds
      /\ tail = IF Chain = <<>> THEN Null ELSE Last(Chain)

\* C12: single-threaded, after every operation the back links agree with
\* the forward links: head.prev is null and b.prev = a for every pair
\* a -> b of the chain from head.
C12_BackLinks ==
  \A t \in Single :
    Idle(t) /\ ChainOk =>
      /\ (head # Null => prev[head] = Null)
      /\ \A i \in 1..(Len(Chain) - 1) : prev[Chain[i + 1]] = Chain[i]

\* C13: single-threaded, delete(n) of a node n of the chain leaves the chain
\* that was there without n, in the same order, head and tail at its first
\* and last node, and n freed, whatever operations came before.
C13_DeleteUnlinks ==
  \A t \in Single :
    pc[t] = "delete_done" /\ loc[t].item \in Range(loc[t].pre) =>
      LET Other(n) == n # loc[t].item
          rest == SelectSeq(loc[t].pre, Other)
      IN /\ Chain = rest
         /\ head = (IF rest = <<>> THEN Null ELSE rest[1])
         /\ tail = (IF rest = <<>> THEN Null ELSE Last(rest))
         /\ status[loc[t].item] = "freed"

\* C14: single-threaded, delete of the only node of the chain leaves head
\* and tail null; and an insertion that found the list empty leaves a chain
\* of the new node alone.
C14_DeleteSole ==
  \A t \in Single :
    /\ (pc[t] = "delete_done" /\ loc[t].pre = <<loc[t].item>> =>
          head = Null /\ tail = Null)
    /\ (pc[t] = "push_set_id" /\ loc[t].exp = Null /\ loc[t].null_ptr = Null =>
          /\ Chain = <<loc[t].item>>
          /\ head = loc[t].item
          /\ tail = loc[t].item)

RECURSIVE WalkBack(_, _, _)
WalkBack(n, seen, k) ==
  IF n = Null \/ k = 0 \/ n \in seen THEN <<>>
  ELSE IF status[n] # "live" THEN <<n>>
  ELSE <<n>> \o WalkBack(prev[n], seen \cup {n}, k - 1)
BackChain == WalkBack(tail, {}, MaxNodes)

\* C16: single-threaded, on a non-empty list pop-head returns the first node
\* of the chain and pop-tail the last one; the returned node has next and
\* prev null and is reachable neither from head (by next) nor from tail (by
\* prev); the other nodes keep their order; head and tail are the first and
\* last of them, both null when the last node was popped.
C16_PopEnds ==
  \A t \in Single :
    pc[t] = "pop_done" /\ loc[t].pre # <<>> =>
      LET pre == loc[t].pre
          n == loc[t].item
          rest == IF loc[t].op = "pop" THEN SubSeq(pre, 2, Len(pre))
                                      ELSE SubSeq(pre, 1, Len(pre) - 1)
      IN /\ n = (IF loc[t].op = "pop" THEN pre[1] ELSE Last(pre))
         /\ next[n] = Null
         /\ prev[n] = Null
         /\ Chain = rest
         /\ head = (IF rest = <<>> THEN Null ELSE rest[1])
         /\ tail = (IF rest = <<>> THEN Null ELSE Last(rest))
         /\ n \notin Range(BackChain)

\* C17: a pop-head or pop-tail that starts with head and tail null returns
\* at once with the result variable null, and changes neither head nor tail
\* nor anything else of the list.
C17_PopEmpty ==
  [][\A t \in Single :
       /\ (/\ Idle(t)
           /\ head = Null
           /\ tail = Null
           /\ loc[t]'.op \in {"pop", "poptail"}
           => /\ pc[t]' = "pop_done"
              /\ loc[t]'.item = Null
              /\ UNCHANGED list)
       /\ (pc[t] = "pop_done" /\ loc[t].item = Null /\ loc[t].pre = <<>>
           => UNCHANGED list)]_vars

\* A pop-tail on a list that earlier pops have emptied has returned null.
C17_Witness ==
  \E t \in Single :
    /\ pc[t] = "pop_done"
    /\ loc[t].op = "poptail"
    /\ loc[t].item = Null
    /\ head = Null
    /\ tail = Null
    /\ \E n \in Nodes : hist.popped[n] > 0

\* C18: a pop (pop-tail after push-tail, pop-head after push-head) on the
\* list that holds nothing but the node of the last insertion returns that
\* node, carrying the value that was pushed, and leaves head and tail null.
C18_PushPopInverse ==
  \A t \in Single :
    (/\ pc[t] = "pop_done"
     /\ Len(loc[t].pre) = 1
     /\ hist.pushed # <<>>
     /\ Last(hist.pushed)[1] = loc[t].pre[1])
    => /\ loc[t].item = loc[t].pre[1]
       /\ id[loc[t].item] = Last(hist.pushed)[2]
       /\ head = Null
       /\ tail = Null

\* A pop-tail has returned the node of a push on the empty list: the push
\* and the pop are the only operations so far.
C18_Witness ==
  \E t \in Single :
    /\ pc[t] = "pop_done"
    /\ loc[t].op = "poptail"
    /\ loc[t].item # Null
    /\ hist.left = MaxSeqOps - 2

\* C19: single-threaded, a pop-head or pop-tail that starts while a node is
\* reachable from head returns a node.
C19_PopNullOnlyEmpty ==
  \A t \in Single :
    pc[t] = "pop_done" /\ loc[t].pre # <<>> => loc[t].item # Null

\* The nodes of the chain that are removed and pinned by a refcount.
PendingNodes == {n \in Reachable : Live(n) /\ removed[n] # 0 /\ refcount[n] > 0}

\* C20: on a quiescent list count-pending returns the number of nodes
\* reachable from head that are removed with refcount > 0: 1 for a removed
\* node pinned with refcount 1, 0 once the refcount is 0 and sweep has run.
C20_CountPending ==
  \A t \in Single :
    pc[t] = "pending_done" => loc[t].val = Cardinality(PendingNodes)

\* A count-pending has returned 0 on a list that holds a node, after a node
\* was pinned, counted as pending, released and swept: seven operations.
C20_Witness ==
  \E t \in Single :
    /\ pc[t] = "pending_done"
    /\ loc[t].val = 0
    /\ hist.left = 0
    /\ Chain # <<>>
    /\ \E n \in Nodes : status[n] = "freed"


\* One thread builds a list with push-tail and push-head, marks and deletes
\* nodes, and queries the list: find-by-field, iterate, count-live, and the
\* caller's own walk over head and next.
NextQuery ==
  \E t \in Single :
    \/ add_tail(t)
    \/ add_head(t)
    \/ push_set_id(t)
    \/ remove(t)
    \/ delete(t)
    \/ find(t)
    \/ foreach(t)
    \/ foreach_head(t, "count")
    \/ raw_walk(t)
SpecQuery == InitEmpty(MaxSeqOps) /\ [][NextQuery]_vars

\* The first node of the chain that is not removed and whose id is v, or
\* null when the chain has none.
FirstMatch(v) ==
  LET Match(n) == Live(n) /\ removed[n] = 0 /\ id[n] = v
      m == SelectSeq(Chain, Match)
  IN IF m = <<>> THEN Null ELSE m[1]

LiveNodes == {n \in Reachable : Live(n) /\ removed[n] = 0}

\* C22: on a quiescent list count-live equals the number of nodes reachable
\* from head whose removed flag is false, which is the number of nodes
\* iterate yields; a walk over head and next counts the removed nodes too.
C22_CountLive ==
  \A t \in Single :
    /\ (pc[t] = "foreach_done" /\ loc[t].op \in {"count", "iterate"} =>
          Len(loc[t].out) = Cardinality(LiveNodes))
    /\ (pc[t] = "raw_done" => loc[t].refs = Len(Chain))

\* A count-live has ended that counted a node and passed a removed one.
C22_Witness ==
  \E t \in Single :
    /\ pc[t] = "foreach_done"
    /\ loc[t].op = "count"
    /\ Len(loc[t].out) > 0
    /\ Len(loc[t].out) < Len(Chain)

\* One thread inserts, sets refcounts, marks nodes removed, once or again,
\* sweeps and counts.
NextMark ==
  \E t \in Single :
    \/ add_tail(t)
    \/ add_head(t)
    \/ push_set_id(t)
    \/ set_ref(t)
    \/ remove(t)
    \/ remove_again(t)
    \/ remove_done(t)
    \/ sweep_steps(t)
    \/ foreach_head(t, "count")
    \/ foreach(t)
SpecMark == InitEmpty(MaxSeqOps) /\ [][NextMark]_vars

\* C23: a second mark-removed of a chained node leaves the list state (the
\* endpoints and every field of every node) exactly as the first left it,
\* hence every later iterate, find, count and sweep gives what it would give
\* after one call; a first mark-removed changes its target's removed flag
\* and nothing else.
C23_MarkIdempotent ==
  [][/\ (\E t \in Single : Idle(t) /\ pc'[t] = "remove_done") => list' = list
     /\ (hist'.marked # hist.marked /\ hist.marked \subseteq hist'.marked) =>
          \E n \in Reachable :
            /\ hist'.marked = hist.marked \cup {n}
            /\ removed' = [removed EXCEPT ![n] = RemovedValue]
            /\ UNCHANGED <<head, tail, next, prev, refcount, id, status>>]_vars

\* The second mark-removed of a chained node has returned.
C23_Witness ==
  \E t \in Single :
    /\ pc[t] = "remove_done"
    /\ loc[t].item \in Reachable \cap hist.marked
    /\ removed[loc[t].item] = RemovedValue

\* C24: in every sequence of operations, a pop followed by an attach of the
\* same node included, the removed flag of a node never goes from true back
\* to false while the node is allocated.
C24_RemovedMonotonic ==
  [][\A n \in Nodes :
       (Live(n) /\ status'[n] = "live" /\ removed[n] # 0) => removed'[n] # 0]_vars

\* One thread that uses every operation of the list, on nodes whose
\* refcount the user stores.
NextFrame ==
  \E t \in Single :
    \/ add_tail(t)
    \/ add_tail_ptr_held(t)
    \/ add_head(t)
    \/ add_head_ptr_held(t)
    \/ push_set_id(t)
    \/ set_ref(t)
    \/ remove(t)
    \/ delete(t)
    \/ pop_head(t)
    \/ pop_tail_steps(t)
    \/ foreach(t)
    \/ foreach_head(t, "count")
    \/ find(t)
    \/ sweep_steps(t)
    \/ count_pending_cleanup(t)
SpecFrame == InitEmpty(MaxFrameOps) /\ [][NextFrame]_vars

\* C25: no list operation (push, attach, mark-removed, delete, pop, iterate,
\* find, count, sweep, count-pending) changes the refcount of a node that is
\* in use before and after the step; only the user's own store does.
C25_RefcountFrame ==
  [][\/ \E t \in Single : set_ref(t)
     \/ \A n \in Nodes :
          (Live(n) /\ status'[n] = "live") => refcount'[n] = refcount[n]]_vars

\* A sweep has ended that passed a removed node with references and left it
\* chained with its refcount.
C25_Witness ==
  \E t \in Single :
    /\ pc[t] = "sweep_done"
    /\ \E n \in Reachable : Live(n) /\ removed[n] # 0 /\ refcount[n] > 0

\* One thread that uses every operation on nodes, and clears the list.
NextClear ==
  \/ NextSeq
  \/ \E t \in Single : clear(t)
SpecClear == InitEmpty(MaxSeqOps) /\ [][NextClear]_vars

\* C26: after clear on a quiescent list, whatever the single-threaded
\* history, head and tail are null, every node the chain held is released,
\* none is released twice or read after its release, and no node stays
\* allocated except those a pop handed to the caller.
C26_ClearReleasesAll ==
  \A t \in Single :
    pc[t] = "clear_done" =>
      /\ head = Null
      /\ tail = Null
      /\ \A n \in Range(loc[t].pre) : status[n] = "freed"
      /\ ~hist.dfree
      /\ "clear" \notin hist.uaf
      /\ \A n \in Nodes : Live(n) => n \in Held

\* Two threads append at the tail.  Thread 2 keeps being scheduled; thread 1
\* may be suspended for good at any point of its operation.
Scheduled == {2}
NextLockFree ==
  \E t \in Threads :
    \/ add_tail(t)
    \/ push_set_id(t)
SpecLockFree ==
  /\ InitEmpty(MaxConcOps)
  /\ [][NextLockFree]_vars
  /\ \A t \in Scheduled : WF_vars(add_tail(t) \/ push_set_id(t))

\* C27: the list is lock-free: with another thread suspended at an arbitrary
\* point of its operation, a thread that keeps taking steps completes the
\* operation it has started; no operation waits for a step of another
\* thread.
C27_LockFree ==
  \A t \in Scheduled : (~Idle(t)) ~> Idle(t)

\* Two threads pop at both ends of a list of MaxNodes nodes; nothing is
\* inserted.
NextPops ==
  \E t \in Threads :
    \/ pop_head(t)
    \/ pop_tail(t)
SpecPops == InitChain /\ [][NextPops]_vars

\* C28: in every interleaving of concurrent pop-head and pop-tail without
\* insertions, each node is returned by at most one pop, and when the pops
\* have returned no returned node is pointed to by head, by tail or by the
\* next link of a node reachable from head.
C28_PopsDisjoint ==
  AllIdle =>
    \A n \in Nodes :
      /\ hist.popped[n] <= 1
      /\ hist.popped[n] > 0 =>
           /\ head # n
           /\ tail # n
           /\ \A m \in Reachable : Live(m) => next[m] # n

\* Two threads delete nodes of a list of MaxNodes nodes, never both the same
\* node.
NextDeletes ==
  \E t \in Threads :
    \/ delete_call_own(t)
    \/ delete_steps(t)
    \/ delete_done(t)
SpecDeletes == InitChain /\ [][NextDeletes]_vars

\* C29: when threads have concurrently deleted distinct nodes of the list,
\* adjacent or not, and the deletes have returned, no deleted node is
\* reachable from head or pointed to by head, by tail or by the next link of
\* a surviving node, and every other node is still reachable from head.
C29_DeletesUnlink ==
  AllIdle =>
    \A n \in Nodes :
      IF Live(n)
        THEN n \in Reachable
        ELSE /\ n \notin Reachable
             /\ head # n
             /\ tail # n
             /\ \A m \in Nodes : Live(m) => next[m] # n

\* The sample program: the producer thread pushes at the head and stores the
\* payload, the monitor thread counts with lfl_foreach, the cleaner thread
\* iterates and calls lfl_delete on nodes it visits, without breaking.
Producer == 1
Monitor == 2
Cleaner == 3
SampleThreads == {Producer, Monitor, Cleaner}
InitSample ==
  /\ head = Null
  /\ tail = Null
  /\ next = [n \in Nodes |-> Null]
  /\ prev = [n \in Nodes |-> Null]
  /\ removed = [n \in Nodes |-> 0]
  /\ refcount = [n \in Nodes |-> 0]
  /\ id = [n \in Nodes |-> 0]
  /\ status = [n \in Nodes |-> "unused"]
  /\ pc = [t \in SampleThreads |-> "idle"]
  /\ loc = [t \in SampleThreads |-> NoLoc]
  /\ hist = [NoHist EXCEPT !.left = MaxConcOps]
\* What the program does after an access to freed storage is undefined: a
\* run is followed up to the first such access.
Defined == hist.uaf = {} /\ ~hist.dfree
NextSample ==
  \/ Defined /\ add_head_alloc(Producer)
  \/ Defined /\ add_head_load(Producer)
  \/ Defined /\ add_head_cas(Producer)
  \/ Defined /\ add_head_set_prev(Producer)
  \/ Defined /\ add_head_set_tail(Producer)
  \/ Defined /\ push_set_id(Producer)
  \/ Defined /\ foreach_head(Monitor, "count")
  \/ Defined /\ foreach_head(Cleaner, "iterdel")
  \/ \E t \in {Monitor, Cleaner} :
       \/ Defined /\ foreach_next(t)
       \/ Defined /\ foreach_removed(t)
       \/ Defined /\ foreach_body(t)
       \/ Defined /\ foreach_done(t)
  \/ Defined /\ delete_load_prev(Cleaner)
  \/ Defined /\ delete_load_next(Cleaner)
  \/ Defined /\ delete_cas_fwd(Cleaner)
  \/ Defined /\ delete_cas_back(Cleaner)
  \/ Defined /\ delete_free(Cleaner)
  \/ Defined /\ cleaner_deleted(Cleaner)
SpecSample == InitSample /\ [][NextSample]_vars

\* C30: in the sample's configuration no thread reads or writes a node
\* after it was freed, no node is freed twice, and no freed node is
\* reachable from head.
C30_SampleSafe ==
  /\ hist.uaf = {}
  /\ ~hist.dfree
  /\ ChainOk

\* C31: in the empty-list branch of push-tail and attach-tail the candidate
\* is installed into head only when head is null at that instant, on the
\* first attempt and on every retry: the CAS on head never replaces a
\* non-null head.
C31_HeadCasFromNull ==
  [][\A t \in Threads :
       (pc[t] = "add_tail_cas_head" /\ pc'[t] = "add_tail_set_tail") =>
         head = Null]_vars

\* Two threads append at the tail, and each keeps taking steps.
NextFair ==
  \E t \in Threads :
    \/ add_tail_weak(t)
    \/ push_set_id(t)
SpecFair ==
  /\ InitEmpty(MaxConcOps)
  /\ [][NextFair]_vars
  /\ \A t \in Threads : WF_vars(add_tail_weak(t) \/ push_set_id(t))

\* C32: when every thread keeps taking steps, each push-tail that was
\* started returns, also after the tail-advance CAS of another push-tail
\* has failed, and tail does not stay for ever on a node whose next is not
\* null.
C32_PushTailReturns ==
  /\ \A t \in Threads : (~Idle(t)) ~> Idle(t)
  /\ <>[](tail = Null \/ LoadPtr(next, tail) = {Null})

\* One thread marks nodes of a list of MaxNodes nodes removed and sweeps,
\* while another deletes, pops at both ends and pushes at the head.
Sweepers == {1}
Mutators == {2}
NextSweepRace ==
  \/ \E t \in Sweepers :
       \/ remove(t)
       \/ sweep_steps(t)
       \/ sweep_reload(t)
  \/ \E t \in Mutators :
       \/ delete(t)
       \/ pop_head(t)
       \/ pop_tail_steps(t)
       \/ add_head(t)
       \/ push_set_id(t)
SpecSweepRace == InitChain /\ [][NextSweepRace]_vars

\* C33: a node that sweep finalizes and frees is, at that moment, not
\* reachable from head by following next, whatever deletes, pops and
\* insertions other threads run meanwhile.
C33_ReapedUnreachable ==
  [][\A t \in Sweepers :
       (pc[t] = "sweep_free" /\ pc'[t] # "sweep_free") =>
         loc[t].curr \notin Reachable]_vars

\* A sweeper under weak fairness of its own steps, beside a thread that
\* deletes nodes and pushes new ones at the head. The sweeper is scheduled
\* whenever it can take a step; the other thread's operations are bounded by
\* the budget, so in every behaviour it eventually stops mutating the list.
NextSweepFair ==
  \/ \E t \in Sweepers : \/ remove(t) \/ sweep_steps(t) \/ sweep_reload(t)
  \/ \E t \in Mutators : \/ delete(t) \/ add_head(t) \/ push_set_id(t)
SpecSweepFair ==
  /\ InitChain
  /\ [][NextSweepFair]_vars
  /\ \A t \in Sweepers : WF_vars(remove(t) \/ sweep_steps(t) \/ sweep_reload(t))

\* C34: lfl_sweep terminates. In every execution without undefined
\* behaviour, a sweep that has started returns once the other thread has
\* stopped mutating the list.
C34_SweepTerminates ==
  \A t \in Sweepers :
    (loc[t].op = "sweep" /\ Defined) ~> (Idle(t) \/ ~Defined)

\* C35: a thread that reaches a newly inserted node through head or through
\* a next link observes it fully initialized: the id a traversal reads from
\* a node it reached is the id the inserting thread gives the node, never the
\* zero calloc left, and the prev link of a node in the chain from head
\* already points to the node before it.
C35_PublishedInitialized ==
  /\ \A t \in Threads :
       loc[t].op = "iterate" =>
         \A i \in 1..Len(loc[t].out) : loc[t].out[i][2] # 0
  /\ \A i \in 1..Len(Chain) :
       prev[Chain[i]] = IF i = 1 THEN Null ELSE Chain[i - 1]

\* Two threads that only push at the head.
NextPushHead ==
  \E t \in Threads :
    \/ add_head(t)
    \/ push_set_id(t)
SpecPushHead == InitEmpty(MaxConcOps) /\ [][NextPushHead]_vars

\* C36: after concurrent push-heads only, when every push has returned,
\* head.prev is null, every node of the chain from head has the node before
\* it as prev, and tail is the oldest node of the chain, with a null next.
C36_PushHeadLinks ==
  AllIdle =>
    /\ \A i \in 1..Len(Chain) :
         prev[Chain[i]] = IF i = 1 THEN Null ELSE Chain[i - 1]
    /\ Len(Chain) = Len(hist.pushed)
    /\ tail = IF Chain = <<>> THEN Null ELSE Chain[Len(Chain)]
    /\ Chain # <<>> => head # Null /\ next[tail] = Null
C36_Witness ==
  /\ AllIdle
  /\ Len(Chain) = MaxNodes
  /\ head # hist.pushed[Len(hist.pushed)][1]

\* The reference double-ended queue, and the list seen as one: the
\* sequence of nodes reachable from head. Front(s) is s without its last
\* element.
Front(s) == SubSeq(s, 1, Len(s) - 1)

\* A step of thread t seen on the reference queue: it leaves the queue as it
\* is, or it is the one step of the operation in progress, a push of the
\* operation's node at the front (the exchange on head of lfl_add_head) or at
\* the back (the exchange on head or on tail->next of lfl_add_tail), or the
\* removal of the front element by lfl_pop_head, of the back element by
\* lfl_pop_tail, whose result variable then holds the element.
DequeStep(t) ==
  \/ Chain' = Chain
  \/ /\ pc[t] = "add_head_cas"
     /\ Chain' = <<loc[t].item>> \o Chain
  \/ /\ pc[t] \in {"add_tail_cas_head", "add_tail_cas_next"}
     /\ Chain' = Append(Chain, loc[t].item)
  \/ /\ loc[t].op = "pop"
     /\ Chain # <<>>
     /\ Chain' = Tail(Chain)
     /\ loc[t].item' = Head(Chain)
  \/ /\ loc[t].op = "poptail"
     /\ Chain # <<>>
     /\ Chain' = Front(Chain)
     /\ loc[t].item' = Last(Chain)

\* What an operation of thread t has done to the reference queue once its
\* exchange is behind it: the pushed node is the front (push-head) or the
\* back (push-tail) element; a pop that returns has taken the front or back
\* element of the queue it started on and holds it, or holds null when that
\* queue was empty.
DequeDone(t) ==
  /\ pc[t] \in {"add_head_set_prev", "add_head_set_tail"} =>
       Chain # <<>> /\ Head(Chain) = loc[t].item
  /\ pc[t] \in {"add_tail_set_tail", "add_tail_set_prev", "add_tail_cas_tail"} =>
       Chain # <<>> /\ Last(Chain) = loc[t].item
  /\ pc[t] = "push_set_id" => loc[t].item \in Range(Chain)
  /\ pc[t] = "pop_done" =>
       LET pre == loc[t].pre
       IN IF pre = <<>>
            THEN loc[t].item = Null /\ Chain = <<>>
            ELSE IF loc[t].op = "pop"
                   THEN loc[t].item = Head(pre) /\ Chain = Tail(pre)
                   ELSE loc[t].item = Last(pre) /\ Chain = Front(pre)

====
